---------------------------- MODULE Spec2Model ----------------------------
(***************************************************************************)
(* A model of ng-tarbuild's pipeline (tar-build.mjs):                      *)
(*   parse options -> ng build -> flatten browser/ into dist/<appName>     *)
(*   -> normalise index.html -> tar.c with a path transform.               *)
(*                                                                         *)
(* A string is a sequence of one-character strings, so that the regular    *)
(* expressions and replacement patterns of the code can be computed.       *)
(* A path is a sequence of segments (strings) below the filesystem root;   *)
(* the filesystem is a function from the paths that exist to their nodes.  *)
(***************************************************************************)
EXTENDS Integers, Sequences, FiniteSets, TLC

VARIABLES
    appName,       \* options.out
    renameFolder,  \* options.rename (<<>> when not supplied: both are falsy)
    skipBuild,     \* options.skipBuild
    fs,            \* the filesystem: path -> node
    archive,       \* the file at tarballPath
    pc,            \* position of main(): start, build, flatten, normalize, archive, done
    exitCode,      \* -1 while running, else the process exit status
    log,           \* the outcome each stage's spinner reported in this run
    pre,           \* the filesystem as the stage that ran last found it
    archive0,      \* the file at tarballPath as this run found it
    run,           \* number of the current invocation
    browser0,      \* content of BuildOutputSubdir when the first flatten began
    distAfter1     \* DistTree as the first invocation's normalisation left it

vars == <<appName, renameFolder, skipBuild, fs, archive, pc, exitCode, log,
          pre, archive0, run, browser0, distAfter1>>

----------------------------------------------------------------------------
(* Strings *)

Max(S) == CHOOSE x \in S : \A y \in S : y <= x

IsPrefix(p, s) == Len(p) <= Len(s) /\ SubSeq(s, 1, Len(p)) = p

Drop(s, n) == SubSeq(s, n + 1, Len(s))

\* The segments of s between the occurrences of sep ("a/b".split("/")).
RECURSIVE SplitAt(_, _, _)
SplitAt(s, sep, cur) ==
    IF s = <<>> THEN <<cur>>
    ELSE IF Head(s) = sep THEN <<cur>> \o SplitAt(Tail(s), sep, <<>>)
    ELSE SplitAt(Tail(s), sep, Append(cur, Head(s)))

Split(s, sep) == SplitAt(s, sep, <<>>)

\* segs.join("/")
RECURSIVE JoinSegs(_)
JoinSegs(segs) ==
    IF segs = <<>> THEN <<>>
    ELSE IF Len(segs) = 1 THEN Head(segs)
    ELSE Head(segs) \o <<"/">> \o JoinSegs(Tail(segs))

----------------------------------------------------------------------------
(* Literals of the program *)

Dist == <<"d", "i", "s", "t">>
Browser == <<"b", "r", "o", "w", "s", "e", "r">>
IndexHtml == <<"i", "n", "d", "e", "x", ".", "h", "t", "m", "l">>
IndexCsrHtml == <<"i", "n", "d", "e", "x", ".", "c", "s", "r", ".", "h", "t", "m", "l">>
TarPrefix == <<"d", "i", "s", "t", "_">>
Ext == <<".", "t", "a", "r">>

\* process.cwd() resolved with options.path: an absolute directory.
Proj == <<"p", "r", "j">>
projectPath == <<Proj>>

----------------------------------------------------------------------------
(* path.join, path.basename (POSIX) *)

\* Normalisation of the segments segs appended to the normalised path acc:
\* "" and "." are dropped, ".." removes the last segment.
RECURSIVE NormalizeSegs(_, _)
NormalizeSegs(acc, segs) ==
    IF segs = <<>> THEN acc
    ELSE LET s == Head(segs) IN
         IF s = <<>> \/ s = <<".">> THEN NormalizeSegs(acc, Tail(segs))
         ELSE IF s = <<".", ".">>
              THEN NormalizeSegs(IF acc = <<>> THEN acc ELSE SubSeq(acc, 1, Len(acc) - 1),
                                 Tail(segs))
         ELSE NormalizeSegs(Append(acc, s), Tail(segs))

PathJoin(base, s) == NormalizeSegs(base, Split(s, "/"))

Basename(p) == IF p = <<>> THEN <<>> ELSE p[Len(p)]

distDir == PathJoin(projectPath, Dist)
distBase(name) == PathJoin(distDir, name)
browserPath(name) == PathJoin(distBase(name), Browser)
tarballName(name) == TarPrefix \o name \o Ext
tarballPath(name) == PathJoin(projectPath, tarballName(name))
indexHtmlPath(name) == PathJoin(distBase(name), IndexHtml)
indexCsrPath(name) == PathJoin(distBase(name), IndexCsrHtml)
distFolderName(name) == Basename(distBase(name))

----------------------------------------------------------------------------
(* String.prototype.replace's replacement patterns *)

Digits == <<"1", "2", "3", "4", "5", "6", "7", "8", "9">>
DigitValue(c) == CHOOSE d \in 1..9 : Digits[d] = c
IsDigit(c) == \E d \in 1..9 : Digits[d] = c

\* The text a replacement string stands for: $$ is a dollar, $& the matched
\* text, $` and $' the text before and after the match, $n the n-th group
\* when the expression has one; any other dollar is literal.
RECURSIVE Expand(_, _, _, _, _)
Expand(rep, matched, before, after, groups) ==
    IF rep = <<>> THEN <<>>
    ELSE IF Head(rep) = "$" /\ Len(rep) >= 2
    THEN LET c == rep[2]
             rest == Expand(Drop(rep, 2), matched, before, after, groups)
         IN  IF c = "$" THEN <<"$">> \o rest
             ELSE IF c = "&" THEN matched \o rest
             ELSE IF c = "`" THEN before \o rest
             ELSE IF c = "'" THEN after \o rest
             ELSE IF IsDigit(c) /\ DigitValue(c) <= Len(groups)
                  THEN groups[DigitValue(c)] \o rest
             ELSE <<"$">> \o Expand(Tail(rep), matched, before, after, groups)
    ELSE <<Head(rep)>> \o Expand(Tail(rep), matched, before, after, groups)

----------------------------------------------------------------------------
(* new RegExp(source), for the sources the program builds: literal        *)
(* characters, ".", "+", "^", "$" and parentheses.                         *)

IsAssertion(a) == a.kind \in {"start", "end"}

\* The atoms of a source, or <<[kind |-> "error"]>> where the RegExp
\* constructor throws a SyntaxError (an unbalanced parenthesis, a "+" with
\* nothing to repeat).
RECURSIVE ParseRegex(_, _)
ParseRegex(src, acc) ==
    IF src = <<>> THEN acc
    ELSE LET c == Head(src) IN
         IF c \in {"(", ")"} THEN <<[kind |-> "error", ch |-> c, plus |-> FALSE]>>
         ELSE IF c = "+"
              THEN IF acc = <<>> \/ IsAssertion(acc[Len(acc)]) \/ acc[Len(acc)].plus
                   THEN <<[kind |-> "error", ch |-> c, plus |-> FALSE]>>
                   ELSE ParseRegex(Tail(src),
                                   [acc EXCEPT ![Len(acc)].plus = TRUE])
         ELSE ParseRegex(Tail(src),
                         Append(acc, [kind |-> IF c = "." THEN "any"
                                               ELSE IF c = "^" THEN "start"
                                               ELSE IF c = "$" THEN "end"
                                               ELSE "lit",
                                      ch |-> c, plus |-> FALSE]))

RegexThrows(src) ==
    LET atoms == ParseRegex(src, <<>>)
    IN  atoms # <<>> /\ atoms[1].kind = "error"

AtomAccepts(a, c) == a.kind = "any" \/ (a.kind = "lit" /\ a.ch = c)

\* The number of consecutive characters of s from position j that a accepts.
RECURSIVE RunLength(_, _, _)
RunLength(a, s, j) ==
    IF j <= Len(s) /\ AtomAccepts(a, s[j]) THEN 1 + RunLength(a, s, j + 1) ELSE 0

\* Backtracking match of atoms[k..] against s from position j: the position
\* after the match the engine finds first (greedy), or 0 when there is none.
RECURSIVE MatchFrom(_, _, _, _)
MatchFrom(atoms, k, s, j) ==
    IF k > Len(atoms) THEN j
    ELSE LET a == atoms[k] IN
         IF a.kind = "start" THEN IF j = 1 THEN MatchFrom(atoms, k + 1, s, j) ELSE 0
         ELSE IF a.kind = "end"
              THEN IF j = Len(s) + 1 THEN MatchFrom(atoms, k + 1, s, j) ELSE 0
         ELSE IF a.plus
              THEN LET n == RunLength(a, s, j)
                       ok == {c \in 1..n : MatchFrom(atoms, k + 1, s, j + c) # 0}
                   IN  IF ok = {} THEN 0 ELSE MatchFrom(atoms, k + 1, s, j + Max(ok))
         ELSE IF j <= Len(s) /\ AtomAccepts(a, s[j])
              THEN MatchFrom(atoms, k + 1, s, j + 1)
         ELSE 0

\* s.replace(new RegExp(src), rep) for a source that starts with "^": the
\* only match is at the start of s.
ReplaceAnchored(s, src, rep) ==
    LET e == MatchFrom(ParseRegex(src, <<>>), 1, s, 1)
    IN  IF e = 0 THEN s
        ELSE Expand(rep, SubSeq(s, 1, e - 1), <<>>, Drop(s, e - 1), <<>>)
             \o Drop(s, e - 1)

----------------------------------------------------------------------------
(* tar.c's transform callback (tar-build.mjs:152-160) *)

transformSource(name) == <<"^">> \o Dist \o <<"/">> \o distFolderName(name)
transformReplacement(rename) == Dist \o <<"/">> \o rename

transformThrows(name, rename) == rename # <<>> /\ RegexThrows(transformSource(name))

transform(entryPath, name, rename) ==
    IF rename # <<>>
    THEN ReplaceAnchored(entryPath, transformSource(name), transformReplacement(rename))
    ELSE entryPath

archiveFolderName(name, rename) == IF rename # <<>> THEN rename ELSE distFolderName(name)

----------------------------------------------------------------------------
(* File contents.  In a file's content the text <base href= is one symbol  *)
(* and every other symbol is one character.                                *)

BaseAttr == "<base href="
Quote == "\""

\* Position of the first match of /<base href="([^"]*)"/ in c and the
\* position of its closing quote; <<0, 0>> when there is no match.
RECURSIVE BaseMatchFrom(_, _)
BaseMatchFrom(c, i) ==
    IF i + 2 > Len(c) THEN <<0, 0>>
    ELSE IF c[i] = BaseAttr /\ c[i + 1] = Quote
              /\ \E j \in (i + 2)..Len(c) : c[j] = Quote
         THEN <<i, CHOOSE j \in (i + 2)..Len(c) :
                      /\ c[j] = Quote
                      /\ \A k \in (i + 2)..(j - 1) : c[k] # Quote>>
    ELSE BaseMatchFrom(c, i + 1)

BaseMatch(c) == BaseMatchFrom(c, 1)
HasBaseHref(c) == BaseMatch(c)[1] # 0
\* csrContent.match(re)?.[1]
BaseHrefValue(c) == SubSeq(c, BaseMatch(c)[1] + 2, BaseMatch(c)[2] - 1)

\* const baseHref = csrContent.match(re)?.[1] || '/'
baseHref(c) ==
    IF HasBaseHref(c) /\ BaseHrefValue(c) # <<>> THEN BaseHrefValue(c) ELSE <<"/">>

\* csrContent.replace(re, `<base href="${baseHref}"`)
updatedHtml(c) ==
    LET m == BaseMatch(c)
        rep == <<BaseAttr, Quote>> \o baseHref(c) \o <<Quote>>
    IN  IF m[1] = 0 THEN c
        ELSE SubSeq(c, 1, m[1] - 1)
             \o Expand(rep, SubSeq(c, m[1], m[2]), SubSeq(c, 1, m[1] - 1),
                       Drop(c, m[2]), <<BaseHrefValue(c)>>)
             \o Drop(c, m[2])

----------------------------------------------------------------------------
(* The filesystem *)

DirNode == [dir |-> TRUE, data |-> <<>>]
FileNode(c) == [dir |-> FALSE, data |-> c]

\* fs.existsSync(p)
Exists(f, p) == p \in DOMAIN f

\* p and everything below it.
Under(f, p) == {q \in DOMAIN f : IsPrefix(p, q)}
Below(f, p) == Under(f, p) \ {p}

Restrict(f, S) == [q \in S |-> f[q]]

\* The non-empty proper prefixes of p: the directories p lies in.
Ancestors(p) == {SubSeq(p, 1, n) : n \in 1..(Len(p) - 1)}

\* fse.remove(p), fs.rmSync(p, {recursive: true, force: true})
Remove(f, p) == Restrict(f, DOMAIN f \ Under(f, p))

\* What lies below p, by its path relative to p.
Subtree(f, p) ==
    [r \in {Drop(q, Len(p)) : q \in Below(f, p)} |-> f[p \o r]]

\* The directory p (made with its parents) holding the tree t.
Install(f, p, t) ==
    LET new == {p \o r : r \in DOMAIN t}
        dirs == (Ancestors(p) \cup {p}) \ new
    IN  [q \in DOMAIN f \cup dirs \cup new |->
            IF q \in new THEN t[Drop(q, Len(p))]
            ELSE IF q \in dirs THEN DirNode
            ELSE f[q]]

\* fs.writeFileSync(p, c)
WriteFile(f, p, c) == [q \in DOMAIN f \cup {p} |-> IF q = p THEN FileNode(c) ELSE f[q]]

----------------------------------------------------------------------------
(* fse.copy(src, dest, {overwrite: true}) *)

CopyTarget(src, dest, q) == dest \o Drop(q, Len(src))

\* fs-extra refuses to put a file where a directory is and a directory
\* where a file is.
CopyCollides(f, src, dest, q) ==
    /\ Exists(f, CopyTarget(src, dest, q))
    /\ f[CopyTarget(src, dest, q)].dir # f[q].dir

CopyThrows(f, src, dest) ==
    \/ ~Exists(f, src)
    \/ ~f[src].dir
    \/ \E q \in Below(f, src) : CopyCollides(f, src, dest, q)

\* The filesystem once the items S of src have been copied; each item is
\* read as the copy found it.
Copied(f, src, dest, S) ==
    LET targets == {CopyTarget(src, dest, q) : q \in S}
    IN  [t \in DOMAIN f \cup targets |->
            IF t \in targets
            THEN f[CHOOSE q \in S : CopyTarget(src, dest, q) = t]
            ELSE f[t]]

\* The sets of items a copy that fails part-way may have copied: a
\* directory is made before what it holds, and no refused item is copied.
PartialCopies(f, src, dest) ==
    {S \in SUBSET Below(f, src) :
        /\ \A q \in S : Ancestors(q) \cap Below(f, src) \subseteq S
        /\ \A q \in S : ~CopyCollides(f, src, dest, q)}

----------------------------------------------------------------------------
(* Inputs *)

MaxBrowserFiles == 2
MaxOuterFiles == 1
MaxRuns == 2

App == <<"a", "p", "p">>
V2 == <<"v", "2">>
MainJs == <<"m", "a", "i", "n", ".", "j", "s">>
Assets == <<"a", "s", "s", "e", "t", "s">>
Logo == <<"l", "o", "g", "o">>

\* --out values: plain, with characters a regular expression reads as
\* operators, and values that are no path segment.
ValidNames == {App, <<"a", ".", "b">>, <<"a", "+", "b">>, <<"a", "$">>, <<"(", "a">>}
InvalidNames == {<<>>, <<".", ".">>, <<"a", "/", "b">>}
AppNames == ValidNames \cup InvalidNames

\* --rename values; <<>> is a run without --rename.
Renames == {<<>>, V2, <<"$", "&">>}

\* An entry document whose base element has the href v, and one without a
\* base element.
Doc(v) == <<"H", BaseAttr, Quote>> \o v \o <<Quote, "T">>
NoBaseDoc == <<"H", "T">>
Hrefs == {<<>>, <<"/", "a", "/">>, <<"$", "$">>}
CsrDocs == {Doc(v) : v \in Hrefs} \cup {NoBaseDoc}

NewFile == <<"n", "e", "w">>
OldFile == <<"o", "l", "d">>

\* Files the build may leave in BuildOutputSubdir, by their path in it.
BrowserCandidates ==
    {<<<<IndexHtml>>, Doc(<<"/">>)>>, <<<<MainJs>>, NewFile>>,
     <<<<Assets, Logo>>, NewFile>>, <<<<Browser, MainJs>>, NewFile>>,
     <<<<Browser>>, NewFile>>}
    \cup {<<<<IndexCsrHtml>>, d>> : d \in CsrDocs}

\* Files an earlier run or build may have left in DistTree.
OuterCandidates ==
    {<<<<IndexHtml>>, OldFile>>, <<<<IndexCsrHtml>>, Doc(<<"/", "o", "/">>)>>,
     <<<<MainJs>>, OldFile>>, <<<<Assets>>, OldFile>>, <<<<MainJs, Logo>>, OldFile>>}

\* No two files at one path, no file inside another.
Consistent(files) ==
    \A x, y \in files : x # y => ~IsPrefix(x[1], y[1])

FileSets(candidates, n) ==
    {F \in SUBSET candidates : Cardinality(F) <= n /\ Consistent(F)}

\* The tree holding the files F: their directories and the files.
TreeOf(F) ==
    LET paths == {x[1] : x \in F}
        dirs == UNION {Ancestors(q) : q \in paths}
    IN  [q \in paths \cup dirs |->
            IF q \in paths THEN FileNode((CHOOSE x \in F : x[1] = q)[2])
            ELSE DirNode]

EmptyTree == TreeOf({})

\* DistTree holding the files O and, when hasBrowser, a BuildOutputSubdir
\* holding the files B.
DistTreeOf(O, hasBrowser, B) ==
    IF hasBrowser THEN Install(TreeOf(O), <<Browser>>, TreeOf(B)) ELSE TreeOf(O)

\* The project directory before the run: dist/v2 of another application.
BaseFs == Install(<<>>, PathJoin(distDir, V2), TreeOf({<<<<MainJs>>, OldFile>>}))

\* What a successful ng build leaves at its output path: browser/ with the
\* application (the application builder), or the application itself.
BuildOutputs ==
    {DistTreeOf({}, TRUE, {<<<<IndexCsrHtml>>, Doc(<<"/", "a", "/">>)>>, <<<<MainJs>>, NewFile>>}),
     TreeOf({<<<<IndexHtml>>, Doc(<<"/">>)>>, <<<<MainJs>>, NewFile>>})}

NoLog == [build |-> "none", browser |-> "none", flatten |-> "none",
          normalize |-> "none", archive |-> "none"]

AbsentArchive == [state |-> "absent", entries |-> {}]
OldArchive == [state |-> "old", entries |-> {}]

InitWith(name, rename, skip, tree, arch) ==
    /\ appName = name
    /\ renameFolder = rename
    /\ skipBuild = skip
    /\ fs = Install(BaseFs, distBase(name), tree)
    /\ archive = arch
    /\ archive0 = arch
    /\ pc = "start"
    /\ exitCode = -1
    /\ log = NoLog
    /\ pre = Install(BaseFs, distBase(name), tree)
    /\ run = 1
    /\ browser0 = EmptyTree
    /\ distAfter1 = EmptyTree

\* Every option value over two trees, and every tree for one application.
Init ==
    \/ \E name \in AppNames, rename \in Renames, skip \in BOOLEAN,
          arch \in {AbsentArchive, OldArchive},
          tree \in BuildOutputs \cup {EmptyTree} :
            InitWith(name, rename, skip, tree, arch)
    \/ \E rename \in {<<>>, V2}, hasBrowser \in BOOLEAN,
          O \in FileSets(OuterCandidates, MaxOuterFiles),
          B \in FileSets(BrowserCandidates, MaxBrowserFiles) :
            /\ (~hasBrowser => B = {})
            /\ InitWith(App, rename, TRUE, DistTreeOf(O, hasBrowser, B), AbsentArchive)

----------------------------------------------------------------------------
(* main() *)

Exit(code) == pc' = "done" /\ exitCode' = code

\* Lines 48-73: the options are read and the paths derived from them.
Parse ==
    /\ pc = "start"
    /\ pc' = "build"
    /\ UNCHANGED <<appName, renameFolder, skipBuild, fs, archive, exitCode, log,
                   pre, archive0, run, browser0, distAfter1>>

\* Step 1 with --skip-build.
BuildSkipped ==
    /\ pc = "build" /\ skipBuild
    /\ log' = [log EXCEPT !.build = "skipped"]
    /\ pc' = "flatten"
    /\ pre' = fs
    /\ UNCHANGED <<appName, renameFolder, skipBuild, fs, archive, exitCode,
                   archive0, run, browser0, distAfter1>>

\* What ng build may leave on success: the output path as it was, or
\* emptied and holding a fresh output.
BuildResults(f, name) ==
    {f} \cup {Install(Remove(f, distBase(name)), distBase(name), o) : o \in BuildOutputs}

\* Step 1: execSync returned.
BuildOk ==
    /\ pc = "build" /\ ~skipBuild
    /\ \E g \in BuildResults(fs, appName) : fs' = g
    /\ log' = [log EXCEPT !.build = "ok"]
    /\ pc' = "flatten"
    /\ pre' = fs
    /\ UNCHANGED <<appName, renameFolder, skipBuild, archive, exitCode,
                   archive0, run, browser0, distAfter1>>

\* Step 1: execSync threw; the build may have emptied its output path.
BuildFailed ==
    /\ pc = "build" /\ ~skipBuild
    /\ \E g \in {fs, Remove(fs, distBase(appName))} : fs' = g
    /\ log' = [log EXCEPT !.build = "fail"]
    /\ Exit(1)
    /\ pre' = fs
    /\ UNCHANGED <<appName, renameFolder, skipBuild, archive,
                   archive0, run, browser0, distAfter1>>

\* Step 2 without its test: the flatten is tried whatever is there.
browserFoundUnchecked(f, name) == TRUE

\* Step 2: fs.existsSync(browserPath)
browserFound(f, name) == Exists(f, browserPath(name))

\* Step 2: BuildOutputSubdir is not there.
FlattenMissing ==
    /\ pc = "flatten"
    /\ ~browserFound(fs, appName)
    /\ log' = [log EXCEPT !.browser = "absent"]
    /\ Exit(1)
    /\ pre' = fs
    /\ UNCHANGED <<appName, renameFolder, skipBuild, fs, archive,
                   archive0, run, browser0, distAfter1>>

\* fse.copy(browserPath, distBase, {overwrite: true}), then
\* fse.remove(browserPath)
flattened(f, name) ==
    Remove(Copied(f, browserPath(name), distBase(name), Below(f, browserPath(name))),
           browserPath(name))

\* Step 2: the copy and the removal succeeded.
FlattenOk ==
    /\ pc = "flatten"
    /\ browserFound(fs, appName)
    /\ ~CopyThrows(fs, browserPath(appName), distBase(appName))
    /\ fs' = flattened(fs, appName)
    /\ log' = [log EXCEPT !.browser = "found", !.flatten = "ok"]
    /\ pc' = "normalize"
    /\ pre' = fs
    /\ browser0' = IF run = 1 THEN Subtree(fs, browserPath(appName)) ELSE browser0
    /\ UNCHANGED <<appName, renameFolder, skipBuild, archive, exitCode,
                   archive0, run, distAfter1>>

\* Step 2: the copy threw (a refused item, an I/O error) or the removal
\* did: what was copied stays, BuildOutputSubdir stays.
FlattenFailed ==
    /\ pc = "flatten"
    /\ browserFound(fs, appName)
    /\ \E S \in PartialCopies(fs, browserPath(appName), distBase(appName)) :
          fs' = Copied(fs, browserPath(appName), distBase(appName), S)
    /\ log' = [log EXCEPT !.browser = "found", !.flatten = "fail"]
    /\ Exit(1)
    /\ pre' = fs
    /\ UNCHANGED <<appName, renameFolder, skipBuild, archive,
                   archive0, run, browser0, distAfter1>>

\* Step 3 with the tests in the other order: index.csr.html is converted
\* whenever it is there.
normalizeBranchCsrFirst(f, name) ==
    IF Exists(f, indexCsrPath(name)) THEN "convert"
    ELSE IF Exists(f, indexHtmlPath(name)) THEN "keep"
    ELSE "warn"

\* Step 3: the branch the two existsSync tests choose.
normalizeBranch(f, name) ==
    IF Exists(f, indexHtmlPath(name)) THEN "keep"
    ELSE IF Exists(f, indexCsrPath(name)) THEN "convert"
    ELSE "warn"

\* Step 3: index.html found and kept as-is.
NormalizeKeep ==
    /\ pc = "normalize"
    /\ normalizeBranch(fs, appName) = "keep"
    /\ log' = [log EXCEPT !.normalize = "kept"]
    /\ pc' = "archive"
    /\ pre' = fs
    /\ UNCHANGED <<appName, renameFolder, skipBuild, fs, archive, exitCode,
                   archive0, run, browser0, distAfter1>>

\* readFileSync, writeFileSync, unlinkSync
converted(f, name) ==
    Remove(WriteFile(f, indexHtmlPath(name), updatedHtml(f[indexCsrPath(name)].data)),
           indexCsrPath(name))

\* Step 3: index.html created from index.csr.html.
NormalizeConvertOk ==
    /\ pc = "normalize"
    /\ normalizeBranch(fs, appName) = "convert"
    /\ ~fs[indexCsrPath(appName)].dir
    /\ fs' = converted(fs, appName)
    /\ log' = [log EXCEPT !.normalize = "converted"]
    /\ pc' = "archive"
    /\ pre' = fs
    /\ UNCHANGED <<appName, renameFolder, skipBuild, archive, exitCode,
                   archive0, run, browser0, distAfter1>>

\* What a conversion that throws leaves: nothing done (the read or the
\* open failed), index.html empty (the write failed), index.html written
\* beside index.csr.html (the unlink failed).
ConvertFailures(f, name) ==
    {f} \cup
    IF f[indexCsrPath(name)].dir THEN {}
    ELSE {WriteFile(f, indexHtmlPath(name), <<>>),
          WriteFile(f, indexHtmlPath(name), updatedHtml(f[indexCsrPath(name)].data))}

\* Step 3: the conversion threw.
NormalizeConvertFailed ==
    /\ pc = "normalize"
    /\ normalizeBranch(fs, appName) = "convert"
    /\ \E g \in ConvertFailures(fs, appName) : fs' = g
    /\ log' = [log EXCEPT !.normalize = "fail"]
    /\ Exit(1)
    /\ pre' = fs
    /\ UNCHANGED <<appName, renameFolder, skipBuild, archive,
                   archive0, run, browser0, distAfter1>>

\* Step 3: neither file is there; a warning, and the run goes on.
NormalizeWarn ==
    /\ pc = "normalize"
    /\ normalizeBranch(fs, appName) = "warn"
    /\ log' = [log EXCEPT !.normalize = "warned"]
    /\ pc' = "archive"
    /\ pre' = fs
    /\ UNCHANGED <<appName, renameFolder, skipBuild, fs, archive, exitCode,
                   archive0, run, browser0, distAfter1>>

\* Step 5: the directory handed to tar.c, relative to cwd = projectPath.
archiveSource(name) == PathJoin(projectPath, JoinSegs(<<Dist, distFolderName(name)>>))

\* entry.path of the item at q
entryPath(q) == JoinSegs(Drop(q, Len(projectPath)))

\* The archive entries of the items Q: where each was read and the path
\* the transform gave it.
entriesOf(Q, name, rename) ==
    {[from |-> entryPath(q), path |-> transform(entryPath(q), name, rename)] : q \in Q}

\* Step 5 done by archiving a copy: with --rename, DistTree is copied to
\* dist/<renameFolder> (emptied first), tar.c reads the copy, and the copy
\* is removed once tar.c resolved.
afterArchiveByCopy(f, name, rename, ok) ==
    IF rename = <<>> THEN f
    ELSE IF ok THEN Remove(f, PathJoin(distDir, rename))
    ELSE Install(Remove(f, PathJoin(distDir, rename)), PathJoin(distDir, rename),
                 Subtree(f, distBase(name)))

\* Step 5 calls nothing that writes below projectPath but tar.c's output
\* file: the tree is as it was, whether tar.c resolved or not.
afterArchive(f, name, rename, ok) == f

\* Step 5: tar.c resolved.
ArchiveOk ==
    /\ pc = "archive"
    /\ Exists(fs, archiveSource(appName))
    /\ ~transformThrows(appName, renameFolder)
    /\ archive' = [state |-> "complete",
                   entries |-> entriesOf(Under(fs, archiveSource(appName)),
                                         appName, renameFolder)]
    /\ fs' = afterArchive(fs, appName, renameFolder, TRUE)
    /\ log' = [log EXCEPT !.archive = "ok"]
    /\ Exit(0)
    /\ pre' = fs
    /\ UNCHANGED <<appName, renameFolder, skipBuild,
                   archive0, run, browser0, distAfter1>>

\* The items tar.c may have written when it rejects: none when the source
\* is missing or the transform throws on the first entry, else a directory
\* before what it holds and not all of them.
PartialWrites(f, name, rename) ==
    IF ~Exists(f, archiveSource(name)) \/ transformThrows(name, rename) THEN {{}}
    ELSE {Q \in SUBSET Under(f, archiveSource(name)) :
            /\ Q # Under(f, archiveSource(name))
            /\ \A q \in Q : Ancestors(q) \cap Under(f, archiveSource(name)) \subseteq Q}

\* The file at tarballPath when tar.c rejects: as it was when the file
\* could not be opened, else what was written; nothing removes it.
FailedArchives(f, name, rename, old) ==
    {old} \cup
    {[state |-> IF Q = {} THEN "truncated" ELSE "partial",
      entries |-> entriesOf(Q, name, rename)] : Q \in PartialWrites(f, name, rename)}

\* Step 5: tar.c rejected.
ArchiveFailed ==
    /\ pc = "archive"
    /\ \E a \in FailedArchives(fs, appName, renameFolder, archive) : archive' = a
    /\ fs' = afterArchive(fs, appName, renameFolder, FALSE)
    /\ log' = [log EXCEPT !.archive = "fail"]
    /\ Exit(1)
    /\ pre' = fs
    /\ UNCHANGED <<appName, renameFolder, skipBuild,
                   archive0, run, browser0, distAfter1>>

\* The tool is run again with --skip-build once BuildOutputSubdir holds
\* what it held before the first run flattened it.
Rerun ==
    /\ pc = "done" /\ exitCode = 0
    /\ run < MaxRuns
    /\ fs' = Install(fs, browserPath(appName), browser0)
    /\ pre' = Install(fs, browserPath(appName), browser0)
    /\ skipBuild' = TRUE
    /\ pc' = "start"
    /\ exitCode' = -1
    /\ log' = NoLog
    /\ run' = run + 1
    /\ archive0' = archive
    /\ distAfter1' = IF run = 1 THEN Subtree(fs, distBase(appName)) ELSE distAfter1
    /\ UNCHANGED <<appName, renameFolder, archive, browser0>>

Next ==
    \/ Parse
    \/ BuildSkipped
    \/ BuildOk
    \/ BuildFailed
    \/ FlattenMissing
    \/ FlattenOk
    \/ FlattenFailed
    \/ NormalizeKeep
    \/ NormalizeConvertOk
    \/ NormalizeConvertFailed
    \/ NormalizeWarn
    \/ ArchiveOk
    \/ ArchiveFailed
    \/ Rerun

Spec == Init /\ [][Next]_vars

----------------------------------------------------------------------------
(* The claims *)

Contains(s, sub) == \E i \in 1..(Len(s) - Len(sub) + 1) : SubSeq(s, i, i + Len(sub) - 1) = sub

IsFileAt(f, p) == Exists(f, p) /\ ~f[p].dir

\* The state is the one a stage of the pipeline has just left.
AfterFlatten == log.browser # "none" /\ log.normalize = "none" /\ log.archive = "none"
AfterNormalize == log.normalize # "none" /\ log.archive = "none"
AfterArchive == log.archive # "none"

\* C1: when BuildOutputSubdir is re-populated with what it held and the
\* flatten and normalise stages run a second time, DistTree is, path for
\* path and content for content, what the first run left.
C1_RerunIdempotent ==
    (run = 2 /\ AfterNormalize /\ pc = "archive")
        => Subtree(fs, distBase(appName)) = distAfter1

\* C2, for a renameFolder of letters and digits: for an appName that is a
\* path segment (with ".", "+", "(" or "$" in it too), every entry of the
\* archive is at dist/<renameFolder> (dist/<appName> without --rename)
\* followed by the rest of its path as read, and with a rename no entry
\* path contains dist/<appName>/.
C2_ArchiveTopLevelFolder ==
    (log.archive = "ok" /\ appName \in ValidNames /\ renameFolder \in {<<>>, V2})
        => \A e \in archive.entries :
              /\ IsPrefix(Dist \o <<"/">> \o appName, e.from)
              /\ e.path = Dist \o <<"/">> \o archiveFolderName(appName, renameFolder)
                          \o Drop(e.from, Len(Dist) + 1 + Len(appName))
              /\ renameFolder # <<>>
                    => ~Contains(e.path, Dist \o <<"/">> \o appName \o <<"/">>)

\* C3, for a source that has a base href: when DistTree held
\* index.csr.html and no index.html, a successful normalisation leaves
\* index.html and no index.csr.html, and the base href of index.html is the
\* one of the source, whatever it is (the empty one too).
C3_CsrBranch ==
    (AfterNormalize /\ pc = "archive"
       /\ IsFileAt(pre, indexCsrPath(appName)) /\ ~Exists(pre, indexHtmlPath(appName))
       /\ HasBaseHref(pre[indexCsrPath(appName)].data))
        => /\ IsFileAt(fs, indexHtmlPath(appName))
           /\ ~Exists(fs, indexCsrPath(appName))
           /\ HasBaseHref(fs[indexHtmlPath(appName)].data)
           /\ BaseHrefValue(fs[indexHtmlPath(appName)].data)
                = BaseHrefValue(pre[indexCsrPath(appName)].data)

\* C4, for the trees in which index.csr.html was found: when the run
\* reaches the Archive Packager, index.html is the one entry file of
\* DistTree and no index.csr.html remains, whether or not the flattened
\* tree held an index.html too.
C4_EntryDocument ==
    (AfterNormalize /\ pc = "archive" /\ Exists(pre, indexCsrPath(appName)))
        => /\ IsFileAt(fs, indexHtmlPath(appName))
           /\ ~Exists(fs, indexCsrPath(appName))

C6_ArchiveOnlyAfterSuccess ==
    /\ (archive # archive0 \/ log.archive # "none")
          => /\ log.build \in {"ok", "skipped"}
             /\ log.browser = "found"
             /\ log.flatten = "ok"
             /\ log.normalize \in {"kept", "converted", "warned"}
    /\ log.build = "fail"
          => /\ pc = "done" /\ exitCode = 1
             /\ log.browser = "none" /\ log.flatten = "none"
             /\ log.normalize = "none" /\ log.archive = "none"
             /\ archive = archive0
    /\ (AfterFlatten /\ ~Exists(pre, browserPath(appName)))
          => /\ pc = "done" /\ exitCode = 1
             /\ log.flatten = "none"
             /\ fs = pre
             /\ archive = archive0

C6_Witness ==
    /\ AfterFlatten
    /\ ~Exists(pre, browserPath(appName))
    /\ log.build = "ok"
    /\ archive = OldArchive
    /\ exitCode = 1

\* C7: when the archive write fails, the run exits with status 1 and the
\* file at tarballPath is absent or empty (or the file the run found,
\* untouched): never an archive written in part.
C7_NoPartialArchive ==
    log.archive = "fail"
        => /\ exitCode = 1
           /\ archive.state \in {"absent", "truncated"} \/ archive = archive0

\* C8: with an appName that is empty or holds ".." or a separator, the run
\* ends with a non-zero status before any stage: the build command is not
\* run and nothing is flattened, normalised or archived.
C8_InvalidAppNameRejected ==
    appName \in InvalidNames
        => /\ log.build \notin {"ok", "fail"}
           /\ log.browser = "none" /\ log.flatten = "none"
           /\ log.normalize = "none" /\ log.archive = "none"
           /\ pc = "done" => exitCode = 1

\* C9: the archive stage, with or without --rename, and whether tar.c
\* resolves or rejects, leaves every path below projectPath as it found
\* it: DistTree, the rest of dist, and no dist/<renameFolder> that was
\* not there.
C9_ArchiveFrame ==
    AfterArchive => fs = pre

C9_Witness ==
    /\ log.archive = "ok"
    /\ renameFolder = V2
    /\ Exists(fs, PathJoin(distDir, V2))
    /\ \E e \in archive.entries :
          /\ e.from = Dist \o <<"/">> \o App \o <<"/">> \o IndexHtml
          /\ e.path = Dist \o <<"/">> \o V2 \o <<"/">> \o IndexHtml

\* C10: after a successful flatten every file that was at browser/<p>,
\* at any depth and also below an entry named browser, is at DistTree/<p>
\* with its content, whatever was there; BuildOutputSubdir is gone (when
\* it held no entry named browser); every entry of DistTree that no
\* browser entry collides with is as it was.
C10_FlattenPostcondition ==
    (AfterFlatten /\ log.flatten = "ok")
        => /\ \A q \in Below(pre, browserPath(appName)) :
                 ~pre[q].dir =>
                     LET t == CopyTarget(browserPath(appName), distBase(appName), q)
                     IN  IsFileAt(fs, t) /\ fs[t].data = pre[q].data
           /\ ~Exists(pre, Append(browserPath(appName), Browser))
                 => ~Exists(fs, browserPath(appName))
           /\ \A q \in DOMAIN pre :
                 (/\ ~IsPrefix(browserPath(appName), q)
                  /\ \A x \in Below(pre, browserPath(appName)) :
                        CopyTarget(browserPath(appName), distBase(appName), x) # q)
                     => Exists(fs, q) /\ fs[q] = pre[q]

=============================================================================
